---- MODULE Spec2Model ----
(***************************************************************************)
(* Model of the blog backend: the post routes and the comment routes       *)
(* (src/unnamed/part_001) and the createAdmin script                       *)
(* (src/unnamed/part_000).                                                 *)
(*                                                                         *)
(* The store is taken to be available and every identifier well formed:    *)
(* the one failure that reaches a catch block (status 500) in the model is *)
(* the Comment schema's validation.  The authentication and upload         *)
(* middleware run before a handler; the model starts where the handler     *)
(* does, with req.user and req.file as inputs.  A handler runs to its      *)
(* response in one step, except createComment, which is split at the       *)
(* `await` between its check of the post and its save.                     *)
(*                                                                         *)
(* A string is a sequence of one-character strings.  A request-body field  *)
(* or header that the client did not send is the JavaScript value          *)
(* undefined, written Undefined below.                                     *)
(***************************************************************************)
EXTENDS Integers, Sequences, FiniteSets, TLC

VARIABLES
    users,          \* the User collection, in natural (insertion) order
    posts,          \* the Post collection: _id -> document
    comments,       \* the Comment collection: _id -> document
    nextPostId,     \* the next Post _id the store hands out
    nextCommentId,  \* the next Comment _id the store hands out
    clock,          \* the store's timestamp source (createdAt)
    pending,        \* createComment requests suspended at `await comment.save()`
    adminLog,       \* the createAdmin runs so far: arguments, exit status, result
    response        \* the response being sent: the request's inputs, its
                    \* outcome, and the collections as the handler found them

vars == <<users, posts, comments, nextPostId, nextCommentId, clock, pending,
          adminLog, response>>

---------------------------------------------------------------------------
(* Bounds of the model. *)

MaxPosts == 2       \* createPost requests that a behaviour may persist
MaxThreadPosts == 1 \* posts of a behaviour of the comment routes
MaxComments == 1    \* createComment requests that a behaviour may persist
MaxExtra == 1       \* longest content: PreviewLen + MaxExtra characters
MaxRuns == 2        \* runs of the createAdmin script in a behaviour

---------------------------------------------------------------------------
(* Strings. *)

Undefined == <<"undefined">>     \* no string: its element is not a character

Rep(c, n) == [i \in 1..n |-> c]

Min(a, b) == IF a < b THEN a ELSE b

\* JavaScript truthiness of a string-or-undefined value: !v
Falsy(v) == v = Undefined \/ v = <<>>

\* String.prototype.substring(0, n)
Substring0(s, n) == SubSeq(s, 1, Min(n, Len(s)))

\* The least index at which pat occurs in s, 0 if none.
IndexOf(s, pat) ==
    LET hits == { i \in 1..(Len(s) - Len(pat) + 1) :
                      SubSeq(s, i, i + Len(pat) - 1) = pat }
    IN IF hits = {} THEN 0 ELSE CHOOSE i \in hits : \A j \in hits : i <= j

\* String.prototype.replace(pat, ""): the first occurrence only.
ReplaceFirst(s, pat) ==
    LET i == IndexOf(s, pat)
    IN IF i = 0 THEN s
       ELSE SubSeq(s, 1, i - 1) \o SubSeq(s, i + Len(pat), Len(s))

Bearer == <<"B", "e", "a", "r", "e", "r", " ">>
Ellipsis == <<".", ".", ".">>
UploadsDir == <<"/", "u", "p", "l", "o", "a", "d", "s", "/">>

PreviewLen == 150

\* String.prototype.trim, the setter the Comment schema puts on content.
RECURSIVE Trim(_)
Trim(s) ==
    IF s = <<>> THEN s
    ELSE IF Head(s) = " " THEN Trim(Tail(s))
    ELSE IF s[Len(s)] = " " THEN Trim(SubSeq(s, 1, Len(s) - 1))
    ELSE s

---------------------------------------------------------------------------
(* Request inputs. *)

Hi == <<"H", "i">>
Yo == <<"Y", "o">>
World == <<"W", "o", "r", "l", "d">>
Moon == <<"M", "o", "o", "n">>

\* Contents around the preview length, for the listing.
LongContents == { Rep("a", n) : n \in PreviewLen..(PreviewLen + MaxExtra) }

\* req.file.filename as the upload middleware leaves it, Undefined when the
\* request carries no file.
FileInputs == {Undefined, <<"f", "1">>}

CommentInputs == {Undefined, <<>>, <<" ">>, <<"o", "k">>, <<" ", "n", "o">>}

NoId == 0     \* an identifier the request does not carry
PostIds == 1..MaxPosts
CommentIds == 1..MaxComments

\* Values of the Authorization header: none, empty, the bare scheme, the
\* credential of user 1, a credential that resolves to nobody.
AuthHeaders ==
    {Undefined, <<>>, Bearer, Bearer \o <<"1">>, Bearer \o <<"z">>}

---------------------------------------------------------------------------
(* The User collection. *)

User(email, username, password, role) ==
    [email |-> email, username |-> username, password |-> password, role |-> role]

Emails == {<<"a", "@">>, <<"b", "@">>}
Usernames == {<<"a">>, <<"b">>}
Passwords == {<<"p", "w">>}

\* The accounts the blog specifications start with: two users and an admin.
SeedUsers ==
    << User(<<"a", "@">>, <<"a">>, <<"p", "w">>, "user"),
       User(<<"b", "@">>, <<"b">>, <<"p", "w">>, "user"),
       User(<<"r", "@">>, <<"r">>, <<"p", "w">>, "admin") >>

\* A request that passed the authentication middleware carries, as
\* req.user, a User of the collection (its index is its _id).
Actors == DOMAIN users

\* The users that write posts in the specifications of the write routes:
\* the first user and the admin.  The second user, the first one's like,
\* acts on the posts of others.
Authors == {1, 3}

\* .populate('author', 'username'): the reference replaced by the User
\* document's _id and username.
Populate(uid) == [_id |-> uid, username |-> users[uid].username]

---------------------------------------------------------------------------
(* Responses. *)

NoResponse ==
    [op |-> "none", req |-> << >>, status |-> 0, body |-> << >>,
     prePosts |-> << >>, preComments |-> << >>]

Idle == response = NoResponse

\* res.status(status).json(body), with the request it answers and the
\* collections as they were when the handler's step began.
Done(op, req, status, body) ==
    [op |-> op, req |-> req, status |-> status, body |-> body,
     prePosts |-> posts, preComments |-> comments]

\* The response leaves; the server is free for the next step.
Send ==
    /\ ~Idle
    /\ response' = NoResponse
    /\ UNCHANGED <<users, posts, comments, nextPostId, nextCommentId, clock,
                   pending, adminLog>>

\* .sort({ createdAt: -1 }): the ids ordered by createdAt, newest first.
RECURSIVE SortDesc(_, _)
SortDesc(coll, ids) ==
    IF ids = {} THEN <<>>
    ELSE LET newest == CHOOSE i \in ids :
                           \A j \in ids : coll[j].createdAt <= coll[i].createdAt
         IN <<newest>> \o SortDesc(coll, ids \ {newest})

---------------------------------------------------------------------------
(* Post routes. *)

\* GET /posts: token = header?.replace('Bearer ', '')
TokenIn(header) ==
    IF header = Undefined THEN Undefined ELSE ReplaceFirst(header, Bearer)

\* GET /posts: isAuthenticated = !!token
IsAuthenticated(header) == ~Falsy(TokenIn(header))

\* GET /posts: the entry returned to an authenticated request.
FullView(id) ==
    [_id |-> id, title |-> posts[id].title, content |-> posts[id].content,
     image |-> posts[id].image, author |-> Populate(posts[id].author),
     authorName |-> posts[id].authorName, createdAt |-> posts[id].createdAt]

\* The public entry without the cut to the preview length.
PublicViewUncut(id) ==
    [_id |-> id, title |-> posts[id].title,
     content |-> posts[id].content \o Ellipsis,
     image |-> posts[id].image, authorName |-> posts[id].authorName,
     createdAt |-> posts[id].createdAt]

\* GET /posts: the entry returned to the public.
PublicView(id) ==
    [_id |-> id, title |-> posts[id].title,
     content |-> Substring0(posts[id].content, PreviewLen) \o Ellipsis,
     image |-> posts[id].image, authorName |-> posts[id].authorName,
     createdAt |-> posts[id].createdAt]

ListPosts(header) ==
    /\ LET order == SortDesc(posts, DOMAIN posts)
           postsData == [k \in 1..Len(order) |->
                            IF IsAuthenticated(header)
                            THEN FullView(order[k])
                            ELSE PublicView(order[k])]
       IN response' = Done("listPosts", [header |-> header], 200, postsData)
    /\ UNCHANGED <<users, posts, comments, nextPostId, nextCommentId, clock,
                   pending, adminLog>>

GetPost(actor, id) ==
    /\ response' = IF id \notin DOMAIN posts
                   THEN Done("getPost", [actor |-> actor, id |-> id], 404, << >>)
                   ELSE Done("getPost", [actor |-> actor, id |-> id], 200,
                             FullView(id))
    /\ UNCHANGED <<users, posts, comments, nextPostId, nextCommentId, clock,
                   pending, adminLog>>

\* The validation with the check of content left out.
TitleMissing(title, content) == Falsy(title)

\* POST /posts: if (!title || !content)
PostFieldsMissing(title, content) == Falsy(title) \/ Falsy(content)

\* POST /posts: new Post({ title, content, image, author, authorName })
NewPost(actor, title, content, file) ==
    [title |-> title, content |-> content,
     image |-> IF file # Undefined THEN UploadsDir \o file ELSE <<>>,
     author |-> actor, authorName |-> users[actor].username,
     createdAt |-> clock]

CreatePost(actor, title, content, file) ==
    LET req == [actor |-> actor, title |-> title, content |-> content,
                file |-> file]
    IN IF PostFieldsMissing(title, content)
       THEN /\ response' = Done("createPost", req, 400, << >>)
            /\ UNCHANGED <<users, posts, comments, nextPostId, nextCommentId,
                           clock, pending, adminLog>>
       ELSE /\ nextPostId <= MaxPosts
            /\ posts' = posts @@ (nextPostId :> NewPost(actor, title, content, file))
            /\ nextPostId' = nextPostId + 1
            /\ clock' = clock + 1
            /\ response' = Done("createPost", req, 201, [_id |-> nextPostId])
            /\ UNCHANGED <<users, comments, nextCommentId, pending, adminLog>>

\* The permission check left out: any authenticated user may write.
CanModifyPostAnyone(actor, post) == TRUE

\* PUT /posts/:id and DELETE /posts/:id: isOwner || isUserAdmin
CanModifyPost(actor, post) ==
    post.author = actor \/ users[actor].role = "admin"

\* The update that also stamps the editing user as the author.
UpdatedPostRestamped(post, actor, title, content, file) ==
    LET p1 == IF ~Falsy(title) THEN [post EXCEPT !.title = title] ELSE post
        p2 == IF ~Falsy(content) THEN [p1 EXCEPT !.content = content] ELSE p1
        p3 == IF file # Undefined THEN [p2 EXCEPT !.image = UploadsDir \o file]
              ELSE p2
    IN [p3 EXCEPT !.author = actor]

\* The update that takes an empty string for a supplied value
\* (title !== undefined in place of title).
UpdatedPostEmptyOverwrites(post, actor, title, content, file) ==
    LET p1 == IF title # Undefined THEN [post EXCEPT !.title = title] ELSE post
        p2 == IF content # Undefined THEN [p1 EXCEPT !.content = content] ELSE p1
    IN IF file # Undefined THEN [p2 EXCEPT !.image = UploadsDir \o file] ELSE p2

\* PUT /posts/:id: the assignments between the permission check and save()
UpdatedPost(post, actor, title, content, file) ==
    LET p1 == IF ~Falsy(title) THEN [post EXCEPT !.title = title] ELSE post
        p2 == IF ~Falsy(content) THEN [p1 EXCEPT !.content = content] ELSE p1
    IN IF file # Undefined THEN [p2 EXCEPT !.image = UploadsDir \o file] ELSE p2

UpdatePost(actor, id, title, content, file) ==
    LET req == [actor |-> actor, id |-> id, title |-> title,
                content |-> content, file |-> file]
    IN IF id \notin DOMAIN posts
       THEN /\ response' = Done("updatePost", req, 404, << >>)
            /\ UNCHANGED <<users, posts, comments, nextPostId, nextCommentId,
                           clock, pending, adminLog>>
       ELSE IF ~CanModifyPost(actor, posts[id])
       THEN /\ response' = Done("updatePost", req, 403, << >>)
            /\ UNCHANGED <<users, posts, comments, nextPostId, nextCommentId,
                           clock, pending, adminLog>>
       ELSE /\ posts' = [posts EXCEPT
                            ![id] = UpdatedPost(@, actor, title, content, file)]
            /\ response' = Done("updatePost", req, 200, << >>)
            /\ UNCHANGED <<users, comments, nextPostId, nextCommentId, clock,
                           pending, adminLog>>

DeletePost(actor, id) ==
    LET req == [actor |-> actor, id |-> id]
    IN IF id \notin DOMAIN posts
       THEN /\ response' = Done("deletePost", req, 404, << >>)
            /\ UNCHANGED <<users, posts, comments, nextPostId, nextCommentId,
                           clock, pending, adminLog>>
       ELSE IF ~CanModifyPost(actor, posts[id])
       THEN /\ response' = Done("deletePost", req, 403, << >>)
            /\ UNCHANGED <<users, posts, comments, nextPostId, nextCommentId,
                           clock, pending, adminLog>>
       ELSE /\ posts' = [j \in DOMAIN posts \ {id} |-> posts[j]]
            /\ response' = Done("deletePost", req, 200, << >>)
            /\ UNCHANGED <<users, comments, nextPostId, nextCommentId, clock,
                           pending, adminLog>>

---------------------------------------------------------------------------
(* Comment routes. *)

\* GET /comments/post/:postId
ListComments(postId) ==
    /\ LET order == SortDesc(comments,
                             { c \in DOMAIN comments : comments[c].post = postId })
       IN response' = Done("listComments", [postId |-> postId], 200,
                           [k \in 1..Len(order) |->
                               [comments[order[k]] EXCEPT
                                   !.author = Populate(@)]])
    /\ UNCHANGED <<users, posts, comments, nextPostId, nextCommentId, clock,
                   pending, adminLog>>

\* POST /comments: new Comment({ content, post, author, authorName }); the
\* schema trims content.
NewComment(actor, content, postId) ==
    [content |-> Trim(content), post |-> postId, author |-> actor,
     authorName |-> users[actor].username]

\* The Comment schema's validation on save: content is required.
CommentValid(doc) == doc.content # Undefined /\ doc.content # <<>>

\* POST /comments, up to `await comment.save()`: the validation, the
\* existence check of the post, the construction of the document.
CreateCommentCheck(actor, content, postId) ==
    LET req == [actor |-> actor, content |-> content, postId |-> postId]
    IN IF Falsy(content) \/ postId = NoId
       THEN /\ response' = Done("createComment", req, 400, << >>)
            /\ UNCHANGED <<users, posts, comments, nextPostId, nextCommentId,
                           clock, pending, adminLog>>
       ELSE IF postId \notin DOMAIN posts
       THEN /\ response' = Done("createComment", req, 404, << >>)
            /\ UNCHANGED <<users, posts, comments, nextPostId, nextCommentId,
                           clock, pending, adminLog>>
       ELSE /\ (nextCommentId - 1) + Cardinality(pending) < MaxComments
            /\ pending' = pending \cup {[req |-> req,
                                         doc |-> NewComment(actor, content, postId)]}
            /\ UNCHANGED <<users, posts, comments, nextPostId, nextCommentId,
                           clock, adminLog, response>>

\* POST /comments, from `await comment.save()` on.
CreateCommentSave(p) ==
    /\ pending' = pending \ {p}
    /\ IF ~CommentValid(p.doc)
       THEN /\ response' = Done("createComment", p.req, 500, << >>)
            /\ UNCHANGED <<users, posts, comments, nextPostId, nextCommentId,
                           clock, adminLog>>
       ELSE /\ comments' = comments @@
                    (nextCommentId :> [content |-> p.doc.content,
                                       post |-> p.doc.post,
                                       author |-> p.doc.author,
                                       authorName |-> p.doc.authorName,
                                       createdAt |-> clock])
            /\ nextCommentId' = nextCommentId + 1
            /\ clock' = clock + 1
            /\ response' = Done("createComment", p.req, 201,
                                [_id |-> nextCommentId, post |-> p.doc.post])
            /\ UNCHANGED <<users, posts, nextPostId, adminLog>>

\* The edit check with the delete route's admin override.
CanEditCommentOrAdmin(actor, comment) ==
    comment.author = actor \/ users[actor].role = "admin"

\* PUT /comments/:id: comment.author.toString() === req.user._id.toString()
CanEditComment(actor, comment) == comment.author = actor

\* PUT /comments/:id: comment.content = content (the schema trims a string)
EditedComment(comment, content) ==
    [comment EXCEPT !.content = IF content = Undefined THEN Undefined
                                ELSE Trim(content)]

UpdateComment(actor, id, content) ==
    LET req == [actor |-> actor, id |-> id, content |-> content]
    IN IF id \notin DOMAIN comments
       THEN /\ response' = Done("updateComment", req, 404, << >>)
            /\ UNCHANGED <<users, posts, comments, nextPostId, nextCommentId,
                           clock, pending, adminLog>>
       ELSE IF ~CanEditComment(actor, comments[id])
       THEN /\ response' = Done("updateComment", req, 403, << >>)
            /\ UNCHANGED <<users, posts, comments, nextPostId, nextCommentId,
                           clock, pending, adminLog>>
       ELSE IF ~CommentValid(EditedComment(comments[id], content))
       THEN /\ response' = Done("updateComment", req, 500, << >>)
            /\ UNCHANGED <<users, posts, comments, nextPostId, nextCommentId,
                           clock, pending, adminLog>>
       ELSE /\ comments' = [comments EXCEPT ![id] = EditedComment(@, content)]
            /\ response' = Done("updateComment", req, 200, << >>)
            /\ UNCHANGED <<users, posts, nextPostId, nextCommentId, clock,
                           pending, adminLog>>

\* DELETE /comments/:id: isOwner || isAdmin
CanDeleteComment(actor, comment) ==
    comment.author = actor \/ users[actor].role = "admin"

DeleteComment(actor, id) ==
    LET req == [actor |-> actor, id |-> id]
    IN IF id \notin DOMAIN comments
       THEN /\ response' = Done("deleteComment", req, 404, << >>)
            /\ UNCHANGED <<users, posts, comments, nextPostId, nextCommentId,
                           clock, pending, adminLog>>
       ELSE IF ~CanDeleteComment(actor, comments[id])
       THEN /\ response' = Done("deleteComment", req, 403, << >>)
            /\ UNCHANGED <<users, posts, comments, nextPostId, nextCommentId,
                           clock, pending, adminLog>>
       ELSE /\ comments' = [j \in DOMAIN comments \ {id} |-> comments[j]]
            /\ response' = Done("deleteComment", req, 200, << >>)
            /\ UNCHANGED <<users, posts, nextPostId, nextCommentId, clock,
                           pending, adminLog>>

---------------------------------------------------------------------------
(* The createAdmin script. *)

\* User.findOne({ $or: [{ email }, { username }] }): the first match in
\* natural order, 0 when no document matches.
FindOne(email, username) ==
    LET hits == { i \in DOMAIN users :
                      users[i].email = email \/ users[i].username = username }
    IN IF hits = {} THEN 0 ELSE CHOOSE i \in hits : \A j \in hits : i <= j

\* The User collection the script leaves and its exit status.  (The
\* password is hashed by the User model, which the script does not show.)
AdminRun(email, username, password) ==
    IF Falsy(email) \/ Falsy(username) \/ Falsy(password)
    THEN [users |-> users, exit |-> 1]
    ELSE LET existingUser == FindOne(email, username)
         IN IF existingUser # 0
            THEN IF users[existingUser].role = "admin"
                 THEN [users |-> users, exit |-> 0]
                 ELSE [users |-> [users EXCEPT ![existingUser].role = "admin"],
                       exit |-> 0]
            ELSE [users |-> Append(users, User(email, username, password, "admin")),
                  exit |-> 0]

CreateAdmin(email, username, password) ==
    /\ Len(adminLog) < MaxRuns
    /\ users' = AdminRun(email, username, password).users
    /\ adminLog' = Append(adminLog,
                          [email |-> email, username |-> username,
                           password |-> password,
                           exit |-> AdminRun(email, username, password).exit,
                           before |-> users,
                           after |-> AdminRun(email, username, password).users])
    /\ UNCHANGED <<posts, comments, nextPostId, nextCommentId, clock, pending,
                   response>>

---------------------------------------------------------------------------
(* Specifications. *)

InitRest ==
    /\ posts = << >>
    /\ comments = << >>
    /\ nextPostId = 1
    /\ nextCommentId = 1
    /\ clock = 1
    /\ pending = {}
    /\ adminLog = << >>
    /\ response = NoResponse

InitBlog == users = SeedUsers /\ InitRest

\* The post listing over posts of every length around the preview length.
NextList ==
    \/ \E header \in AuthHeaders : Idle /\ ListPosts(header)
    \/ \E actor \in Actors, id \in PostIds : Idle /\ GetPost(actor, id)
    \/ \E actor \in Actors, content \in {World} \cup LongContents :
          Idle /\ CreatePost(actor, Hi, content, Undefined)
    \/ \E actor \in Actors, id \in PostIds : Idle /\ DeletePost(actor, id)
    \/ Send

SpecList == InitBlog /\ [][NextList]_vars

\* The routes that write posts.
NextEdit ==
    \/ \E actor \in Authors, title \in {Undefined, <<>>, Hi},
          content \in {Undefined, <<>>, World}, file \in FileInputs :
              Idle /\ CreatePost(actor, title, content, file)
    \/ \E actor \in Actors, id \in PostIds, title \in {Undefined, <<>>, Yo},
          content \in {Undefined, <<>>, Moon}, file \in FileInputs :
              Idle /\ UpdatePost(actor, id, title, content, file)
    \/ \E actor \in Actors, id \in PostIds : Idle /\ DeletePost(actor, id)
    \/ Send

SpecEdit == InitBlog /\ [][NextEdit]_vars

\* The comment routes, with the post routes that make, edit and remove the
\* posts commented on.
ThreadIds == 1..MaxThreadPosts

NextComments ==
    \/ \E actor \in Authors :
          Idle /\ nextPostId <= MaxThreadPosts
               /\ CreatePost(actor, Hi, World, Undefined)
    \/ \E actor \in Actors, id \in ThreadIds :
          Idle /\ UpdatePost(actor, id, Yo, Undefined, Undefined)
    \/ \E actor \in Actors, id \in ThreadIds : Idle /\ DeletePost(actor, id)
    \/ \E postId \in ThreadIds : Idle /\ ListComments(postId)
    \/ \E actor \in Actors, content \in CommentInputs,
          postId \in ThreadIds \cup {NoId} :
              Idle /\ CreateCommentCheck(actor, content, postId)
    \/ \E p \in pending : Idle /\ CreateCommentSave(p)
    \/ \E actor \in Actors, id \in CommentIds, content \in CommentInputs :
          Idle /\ UpdateComment(actor, id, content)
    \/ \E actor \in Actors, id \in CommentIds : Idle /\ DeleteComment(actor, id)
    \/ Send

SpecComments == InitBlog /\ [][NextComments]_vars

\* The stores the script may find: any accounts with distinct emails and
\* distinct usernames.
Accounts ==
    { User(e, u, p, r) : e \in Emails, u \in Usernames, p \in Passwords,
                         r \in {"user", "admin"} }

InitialStores ==
    {<< >>} \cup { <<x>> : x \in Accounts }
        \cup { <<x[1], x[2]>> : x \in
                 { y \in Accounts \X Accounts :
                     y[1].email # y[2].email /\ y[1].username # y[2].username } }

InitAdmin == users \in InitialStores /\ InitRest

NextAdmin ==
    \E email \in Emails \cup {Undefined, <<>>},
       username \in Usernames \cup {Undefined},
       password \in Passwords \cup {Undefined} :
           CreateAdmin(email, username, password)

SpecAdmin == InitAdmin /\ [][NextAdmin]_vars

---------------------------------------------------------------------------
(* Properties. *)

\* The request presents no credential at all.
NoCredential(header) == header \in {Undefined, <<>>, Bearer}

\* The request presents the bearer credential of a User of the collection
\* (user n's credential is the digit n).
LiveCredential(header) ==
    \E uid \in DOMAIN users : header = Bearer \o <<ToString(uid)>>

\* C1: every stored post is listed; listed to a request without a
\* credential its content has at most 153 characters and the entry has no
\* author field, listed to a request with a live user's credential the
\* entry has the post's full content and its author.
C1_ListViews ==
    response.op = "listPosts" =>
        /\ Len(response.body) = Cardinality(DOMAIN posts)
        /\ { response.body[k]._id : k \in DOMAIN response.body } = DOMAIN posts
        /\ \A k \in DOMAIN response.body :
              LET e == response.body[k]
                  p == posts[e._id]
              IN /\ NoCredential(response.req.header) =>
                        /\ Len(e.content) <= 153
                        /\ "author" \notin DOMAIN e
                        /\ e.authorName = p.authorName
                 /\ LiveCredential(response.req.header) =>
                        /\ e.content = p.content
                        /\ "author" \in DOMAIN e
                        /\ e.author._id = p.author
                        /\ e.authorName = p.authorName

\* A post longer than the preview listed to a request with no credential.
C1_Witness ==
    /\ response.op = "listPosts"
    /\ response.req.header = Undefined
    /\ \E k \in DOMAIN response.body :
          /\ Len(posts[response.body[k]._id].content) > PreviewLen
          /\ Len(response.body[k].content) = 153

\* C2: the full view (an entry with the author reference) is given only to
\* a request whose credential resolves to a live User.
C2_FullViewOnlyToLiveUser ==
    response.op = "listPosts" =>
        \A k \in DOMAIN response.body :
            "author" \in DOMAIN response.body[k] =>
                LiveCredential(response.req.header)

\* C7: a post with fewer than 150 characters of content is listed to an
\* anonymous request with its content unchanged and without the author
\* field, and to its author with full content and author.
C7_ShortContentUnchanged ==
    response.op = "listPosts" =>
        \A k \in DOMAIN response.body :
            LET e == response.body[k]
                p == posts[e._id]
            IN Len(p.content) < 150 =>
                  /\ response.req.header = Undefined =>
                        e.content = p.content /\ "author" \notin DOMAIN e
                  /\ response.req.header = Bearer \o <<ToString(p.author)>> =>
                        e.content = p.content /\ e.author._id = p.author

\* C8: createPost with an empty or missing title or content answers 400 and
\* leaves the Post collection as it was.
C8_CreatePostValidation ==
    (/\ response.op = "createPost"
     /\ \/ response.req.title \in {Undefined, <<>>}
        \/ response.req.content \in {Undefined, <<>>})
        => response.status = 400 /\ posts = response.prePosts

\* A createPost with a title and an empty content, refused, beside a
\* stored post.
C8_Witness ==
    /\ response.op = "createPost"
    /\ response.req.title = Hi
    /\ response.req.content = <<>>
    /\ response.status = 400
    /\ posts # << >>

\* C9: no step changes the author of a stored post, and a post that a step
\* adds has the id of the creating actor as its author.
C9_AuthorImmutable ==
    [][\A id \in DOMAIN posts' :
          IF id \in DOMAIN posts
          THEN posts'[id].author = posts[id].author
          ELSE /\ response'.op = "createPost"
               /\ posts'[id].author = response'.req.actor]_vars

\* A post updated by an admin who is not its author.
C9_Witness ==
    /\ response.op = "updatePost"
    /\ response.status = 200
    /\ response.req.title = Yo
    /\ posts[response.req.id].author # response.req.actor

Stranger(doc) ==
    /\ response.req.actor # doc.author
    /\ users[response.req.actor].role # "admin"

\* C3: updatePost and updateComment by an actor who is neither the author
\* nor an admin answer 403 and leave the stored documents as they were.
C3_ForbiddenUpdate ==
    /\ (/\ response.op = "updatePost"
        /\ response.req.id \in DOMAIN response.prePosts
        /\ Stranger(response.prePosts[response.req.id]))
           => response.status = 403 /\ posts = response.prePosts
    /\ (/\ response.op = "updateComment"
        /\ response.req.id \in DOMAIN response.preComments
        /\ Stranger(response.preComments[response.req.id]))
           => response.status = 403 /\ comments = response.preComments

\* A user's edit of another's comment, with a new content, refused.
C3_Witness ==
    /\ response.op = "updateComment"
    /\ response.status = 403
    /\ users[response.req.actor].role = "user"
    /\ response.req.content = <<" ", "n", "o">>
    /\ comments[response.req.id].content = <<"o", "k">>

\* C4: on an existing comment, an admin who is not the author is refused
\* the edit (403, comment unchanged) and granted the delete (200, comment
\* removed, the others kept); an actor who is neither author nor admin is
\* refused the delete (403, comment kept).
C4_AdminAsymmetry ==
    (response.op \in {"updateComment", "deleteComment"}
        /\ response.req.id \in DOMAIN response.preComments) =>
        LET r == response.req
            c == response.preComments[r.id]
            isAdmin == users[r.actor].role = "admin"
        IN /\ (response.op = "updateComment" /\ isAdmin /\ r.actor # c.author)
                 => response.status = 403 /\ comments = response.preComments
           /\ (response.op = "deleteComment" /\ isAdmin /\ r.actor # c.author)
                 => /\ response.status = 200
                    /\ comments = [j \in DOMAIN response.preComments \ {r.id}
                                     |-> response.preComments[j]]
           /\ (response.op = "deleteComment" /\ ~isAdmin /\ r.actor # c.author)
                 => response.status = 403 /\ comments = response.preComments

\* An admin refused the edit of a user's comment.
C4_Witness ==
    /\ response.op = "updateComment"
    /\ response.status = 403
    /\ users[response.req.actor].role = "admin"
    /\ response.req.content = <<" ", "n", "o">>
    /\ comments[response.req.id].author = 1

\* C5: a createComment with a non-blank content and a postId persists a Comment only
\* if the Post is in the store when the Comment is written, and one whose
\* Post is not in the store answers 404 and leaves the Comments as they
\* were, whatever deletePost requests run between its check and its save.
C5_NoOrphanComment ==
    (/\ response.op = "createComment"
     /\ response.req.content \notin {Undefined, <<>>, <<" ">>}
     /\ response.req.postId # NoId) =>
        /\ response.status = 201 => response.req.postId \in DOMAIN response.prePosts
        /\ response.req.postId \notin DOMAIN response.prePosts =>
              response.status = 404 /\ comments = response.preComments

\* The identity (email, username) matches user k of store.
Matches(store, k, email, username) ==
    store[k].email = email \/ store[k].username = username

\* C6: a run of createAdmin that repeats the previous run's complete
\* arguments exits 0 and leaves the User collection as the previous run
\* left it, with exactly one User matching the identity, an admin.
C6_BootstrapIdempotent ==
    \A i \in 1..(Len(adminLog) - 1) :
        LET a == adminLog[i]
            b == adminLog[i + 1]
        IN (/\ a.email = b.email /\ a.username = b.username
            /\ a.password = b.password
            /\ ~Falsy(a.email) /\ ~Falsy(a.username) /\ ~Falsy(a.password)) =>
               /\ b.exit = 0
               /\ b.after = a.after
               /\ Cardinality({ k \in DOMAIN b.after :
                                  Matches(b.after, k, b.email, b.username) }) = 1
               /\ \A k \in DOMAIN b.after :
                     Matches(b.after, k, b.email, b.username) =>
                         b.after[k].role = "admin"

====
